---- MODULE Spec2Model ----
(***************************************************************************)
(* A model of go-lzss: the streaming LZSS reader (decoder.Read, decode,    *)
(* flush, Close, NewCustomReader) and the buffer decoder (Decoder.Decode,  *)
(* NewCustomDecoder).  Bytes are the integers 0..255; Go slices are        *)
(* indexed from 0, TLA+ sequences from 1, hence the "+ 1" in every index.  *)
(***************************************************************************)
EXTENDS Integers, Sequences, FiniteSets, TLC

(***************************************************************************)
(* Program constants.                                                      *)
(***************************************************************************)
LSB == 0
MSB == 1
NFlags == 8
NOffsetBits == 12
NLengthBits == 4
NReferenceBytes == (NOffsetBits + NFlags) \div 8
ThresholdMin == NReferenceBytes + NFlags \div 8
DefaultThreshold == ThresholdMin
windowLength == 2 ^ NOffsetBits
flushBuffer == 2 * windowLength

(***************************************************************************)
(* Bounds of the model.                                                    *)
(***************************************************************************)
MaxStreamLen == 4      \* longest exhaustively enumerated byte source
MaxRounds == 3         \* a Read call is followed for MaxRounds decode rounds
                       \* more than the source has bytes left
MaxBuf == 4            \* the longest buffer handed to Read
MaxFailAt == 0         \* last source position at which a read fault is placed
MaxDecodeLen == 5      \* longest exhaustively enumerated Decode input
MaxGroups == 2         \* most groups in a Decode input built from groups

Min(a, b) == IF a < b THEN a ELSE b

Zeros(n) == [k \in 1..n |-> 0]

RECURSIVE SeqsUpTo(_, _)
\* every sequence over S of length at most n
SeqsUpTo(S, n) ==
  IF n = 0 THEN {<<>>}
  ELSE LET shorter == SeqsUpTo(S, n - 1)
       IN shorter \cup {Append(s, b) : s \in {t \in shorter : Len(t) = n - 1}, b \in S}

Prefixes(s) == {SubSeq(s, 1, k) : k \in 0..Len(s)}

(***************************************************************************)
(* The output buffer.  make([]byte, n) is n zero bytes; the model keeps    *)
(* the buffer as its length (cap) and its contents up to the last non-zero *)
(* byte (buf), every byte behind being 0.                                  *)
(***************************************************************************)
RECURSIVE LastNonZero(_, _, _)
\* the last k in lo..hi with s[k] # 0, or 0 when there is none
LastNonZero(s, lo, hi) ==
  IF lo > hi THEN 0
  ELSE IF lo = hi THEN (IF s[lo] # 0 THEN lo ELSE 0)
  ELSE LET mid == (lo + hi) \div 2
           right == LastNonZero(s, mid + 1, hi)
       IN IF right # 0 THEN right ELSE LastNonZero(s, lo, mid)

Trim(s) == SubSeq(s, 1, LastNonZero(s, 1, Len(s)))

\* output[k]
OutAt(buf, k) == IF k < Len(buf) THEN buf[k + 1] ELSE 0

\* output[k] = b
OutPut(buf, k, b) ==
  IF k + 1 < Len(buf) \/ (k + 1 = Len(buf) /\ b # 0) THEN [buf EXCEPT ![k + 1] = b]
  ELSE IF k + 1 = Len(buf) THEN Trim(SubSeq(buf, 1, k))
  ELSE IF b = 0 THEN buf
  ELSE buf \o Zeros(k - Len(buf)) \o <<b>>

\* output[lo:hi] as a sequence of bytes
OutSlice(buf, lo, hi) == [k \in 1..(hi - lo) |-> OutAt(buf, lo + k - 1)]

\* copy(output[o:o+n], output[pos:pos+n]): Go's copy moves the bytes as if
\* through a temporary, so every source byte is read before any is written
copyOutput(buf, o, pos, n) ==
  LET moved == OutSlice(buf, pos, pos + n)
      head == IF Len(buf) >= o THEN SubSeq(buf, 1, o) ELSE buf \o Zeros(o - Len(buf))
  IN IF Len(buf) > o + n THEN head \o moved \o SubSeq(buf, o + n + 1, Len(buf))
     ELSE IF Trim(moved) # <<>> THEN head \o Trim(moved)
     ELSE IF Len(buf) <= o THEN buf
     ELSE Trim(head)

(***************************************************************************)
(* The byte source (io.ByteReader).  bytes is what it holds, pos how many  *)
(* bytes it has handed out; failAt, when not -1, is the position at which  *)
(* ReadByte returns an error other than io.EOF, once (a transient fault)   *)
(* or on every call (sticky).  A ReadByte that fails returns the byte 0,   *)
(* as bufio.Reader and bytes.Reader do.                                    *)
(***************************************************************************)
NilReader == [isNil |-> TRUE, bytes |-> <<>>, pos |-> 0, failAt |-> -1, sticky |-> FALSE]

NewByteReader(bytes, failAt, sticky) ==
  [isNil |-> FALSE, bytes |-> bytes, pos |-> 0, failAt |-> failAt, sticky |-> sticky]

ReadByte(r) ==
  IF r.failAt = r.pos
  THEN [b |-> 0, err |-> "ErrIO", r |-> IF r.sticky THEN r ELSE [r EXCEPT !.failAt = -1]]
  ELSE IF r.pos < Len(r.bytes)
  THEN [b |-> r.bytes[r.pos + 1], err |-> "nil", r |-> [r EXCEPT !.pos = @ + 1]]
  ELSE [b |-> 0, err |-> "EOF", r |-> r]

(***************************************************************************)
(* The flag and reference functions of the streaming reader.               *)
(***************************************************************************)
\* DefaultFlagFunc taking the flags from the least significant bit up
DefaultFlagFuncLSBFirst(flags, pos) == ((flags \div (2 ^ pos)) % 2) = 0

\* flags<<pos&0x80 == 0, on a byte
DefaultFlagFunc(flags, pos) == (((flags * (2 ^ pos)) % 256) \div 128) = 0

\* ReaderReferenceFunc taking refBytes[0] for the low byte in either order
ReaderReferenceFuncAnyOrder(refBytes, order) ==
  LET ref == (refBytes[2] * 256 + refBytes[1]) % 65536
  IN <<ref % (2 ^ NLengthBits), ref \div (2 ^ NLengthBits)>>

\* the reader's DefaultReferenceFunc: <<length, offset>>
ReaderReferenceFunc(refBytes, order) ==
  LET lo == IF order = LSB THEN refBytes[1] ELSE refBytes[2]
      hi == IF order = LSB THEN refBytes[2] ELSE refBytes[1]
      ref == (hi * 256 + lo) % 65536
  IN <<ref % (2 ^ NLengthBits), ref \div (2 ^ NLengthBits)>>

\* a caller's reference function, one that can reject a code (length < 0)
\* and can return a negative offset
BiasedReferenceFunc(refBytes, order) ==
  LET a == IF order = LSB THEN refBytes[1] ELSE refBytes[2]
      b == IF order = LSB THEN refBytes[2] ELSE refBytes[1]
  IN <<a - 1, b - 1>>

\* a caller's flag function: a set bit marks a literal
InvertedFlagFunc(flags, pos) == (((flags * (2 ^ pos)) % 256) \div 128) # 0

\* d.flagFunc(flags, pos)
CallFlagFunc(f, flags, pos) ==
  IF f = "Inverted" THEN InvertedFlagFunc(flags, pos) ELSE DefaultFlagFunc(flags, pos)

\* d.referenceFunc(refBytes, order)
CallReaderReferenceFunc(f, refBytes, order) ==
  IF f = "Biased" THEN BiasedReferenceFunc(refBytes, order)
  ELSE ReaderReferenceFunc(refBytes, order)

(***************************************************************************)
(* The streaming decoder.  d is the decoder struct; d.output is the        *)
(* buffer's contents and d.cap its length, d.toRead = [lo, hi] stands for  *)
(* the slice d.output[lo:hi], which shares the buffer's bytes.  d.panic is *)
(* set when the code indexes or slices out of range.  d.lastCopy is no     *)
(* field of the struct: it records the reference the current round         *)
(* resolved last (write index o, source index pos, length n; n = 0 when    *)
(* there is none), for the properties to speak about.                      *)
(***************************************************************************)
NoCopy == [o |-> 0, pos |-> 0, n |-> 0]

flush(d) == [d EXCEPT !.toRead = [lo |-> 0, hi |-> d.o], !.o = 0]

\* decodeDeferred flushing only a full buffer, not on an error
decodeDeferredNoErrorFlush(d) ==
  LET d1 == IF d.err = "EOF" THEN [d EXCEPT !.err = "ErrUnexpectedEOF"] ELSE d
  IN IF d1.o >= flushBuffer THEN flush(d1) ELSE d1

\* the function decode defers
decodeDeferred(d) ==
  LET d1 == IF d.err = "EOF" THEN [d EXCEPT !.err = "ErrUnexpectedEOF"] ELSE d
  IN IF d1.o >= flushBuffer \/ d1.err # "nil" THEN flush(d1) ELSE d1

\* d.output[d.o], d.err = d.r.ReadByte(); d.i++; d.o++
decodeLiteral(d) ==
  LET rb == ReadByte(d.r)
  IN IF d.o >= d.cap THEN [d EXCEPT !.r = rb.r, !.panic = TRUE]
     ELSE LET d1 == [d EXCEPT !.r = rb.r, !.output = OutPut(@, d.o, rb.b), !.err = rb.err]
          IN IF rb.err # "nil" THEN d1 ELSE [d1 EXCEPT !.i = @ + 1, !.o = @ + 1]

RECURSIVE readReferenceBytes(_, _)
\* the loop filling refBytes; <<d, refBytes>>
readReferenceBytes(d, refBytes) ==
  IF Len(refBytes) = NReferenceBytes THEN <<d, refBytes>>
  ELSE LET rb == ReadByte(d.r)
           d1 == [d EXCEPT !.r = rb.r, !.err = rb.err]
       IN IF rb.err # "nil" THEN <<d1, Append(refBytes, rb.b)>>
          ELSE readReferenceBytes([d1 EXCEPT !.i = @ + 1], Append(refBytes, rb.b))

decodeReference(d) ==
  LET rd == readReferenceBytes(d, <<>>)
      d1 == rd[1]
      lo == CallReaderReferenceFunc(d.referenceFunc, rd[2], d.order)
      n == lo[1] + d.threshold
      offset == lo[2]
      pos == (d.o - 1) - offset
  IN IF d1.err # "nil" THEN d1
     ELSE IF lo[1] < 0 THEN [d1 EXCEPT !.err = "ErrChunkLength"]
     ELSE IF offset < 0 \/ pos < 0 THEN [d1 EXCEPT !.err = "ErrOffset"]
     ELSE IF n < 0 \/ d.o + n > d.cap \/ pos + n > d.cap THEN [d1 EXCEPT !.panic = TRUE]
     ELSE [d1 EXCEPT !.output = copyOutput(@, d.o, pos, n), !.o = @ + n,
                     !.lastCopy = [o |-> d.o, pos |-> pos, n |-> n]]

RECURSIVE decodeZeroFlags(_, _)
\* the loop of the flags == 0 case
decodeZeroFlags(d, k) ==
  IF k = NFlags THEN d
  ELSE LET d1 == decodeLiteral(d)
       IN IF d1.err # "nil" \/ d1.panic THEN d1 ELSE decodeZeroFlags(d1, k + 1)

RECURSIVE decodeFlags(_, _, _)
\* the loop over the NFlags flags of one flag byte
decodeFlags(d, flags, k) ==
  IF k = NFlags THEN d
  ELSE LET d1 == IF CallFlagFunc(d.flagFunc, flags, k) THEN decodeLiteral(d)
                 ELSE decodeReference(d)
       IN IF d1.err # "nil" \/ d1.panic THEN d1 ELSE decodeFlags(d1, flags, k + 1)

\* decode up to its return, the deferred function not yet run
decodeBody(d) ==
  IF d.r.isNil THEN [d EXCEPT !.panic = TRUE]
  ELSE LET rb == ReadByte(d.r)
           d0 == [d EXCEPT !.r = rb.r, !.lastCopy = NoCopy]
       IN IF rb.err = "EOF" THEN flush(d0)
          ELSE IF d.err # "nil" THEN [d0 EXCEPT !.err = rb.err]
          ELSE LET d1 == [d0 EXCEPT !.i = @ + 1]
               IN IF rb.b = 0 THEN decodeZeroFlags(d1, 0)
                  ELSE decodeFlags(d1, rb.b, 0)

decode(d) == decodeDeferred(decodeBody(d))

\* Close dropping the bytes that are ready
CloseDiscarding(d) == [d EXCEPT !.err = "errClosed", !.toRead = [lo |-> 0, hi |-> 0]]

Close(d) == [d EXCEPT !.err = "errClosed"]

\* the error Close returns
CloseResult(d) == "nil"

Pos(d) == d.i

\* new(decoder)
ZeroDecoder ==
  [r |-> NilReader, order |-> 0, err |-> "nil", cap |-> 0, output |-> <<>>, o |-> 0,
   toRead |-> [lo |-> 0, hi |-> 0], i |-> 0, threshold |-> 0,
   flagFunc |-> "nil", referenceFunc |-> "nil", panic |-> FALSE, lastCopy |-> NoCopy]

\* NewCustomReader going on to build the reader when the threshold is too
\* small
NewCustomReaderLowThreshold(r, order, flagFunc, referenceFunc, threshold) ==
  IF order # LSB /\ order # MSB THEN [ZeroDecoder EXCEPT !.err = "ErrOrder"]
  ELSE IF flagFunc = "nil" \/ referenceFunc = "nil"
  THEN [ZeroDecoder EXCEPT !.err = "ErrNilParameter"]
  ELSE [ZeroDecoder EXCEPT !.threshold = threshold, !.order = order,
                           !.flagFunc = flagFunc, !.referenceFunc = referenceFunc,
                           !.r = r,
                           !.err = IF threshold < ThresholdMin THEN "ErrThreshold" ELSE "nil",
                           !.cap = flushBuffer + NFlags * (threshold + (2 ^ NLengthBits - 1))]

\* NewCustomReader allocating room for the thresholds of one round only
NewCustomReaderSmallBuffer(r, order, flagFunc, referenceFunc, threshold) ==
  IF order # LSB /\ order # MSB THEN [ZeroDecoder EXCEPT !.err = "ErrOrder"]
  ELSE IF flagFunc = "nil" \/ referenceFunc = "nil"
  THEN [ZeroDecoder EXCEPT !.err = "ErrNilParameter"]
  ELSE IF threshold < ThresholdMin
  THEN [ZeroDecoder EXCEPT !.threshold = threshold, !.err = "ErrThreshold"]
  ELSE [ZeroDecoder EXCEPT !.threshold = threshold, !.order = order,
                           !.flagFunc = flagFunc, !.referenceFunc = referenceFunc,
                           !.r = r, !.cap = flushBuffer + NFlags * threshold]

NewCustomReader(r, order, flagFunc, referenceFunc, threshold) ==
  IF order # LSB /\ order # MSB THEN [ZeroDecoder EXCEPT !.err = "ErrOrder"]
  ELSE IF flagFunc = "nil" \/ referenceFunc = "nil"
  THEN [ZeroDecoder EXCEPT !.err = "ErrNilParameter"]
  ELSE IF threshold < ThresholdMin
  THEN [ZeroDecoder EXCEPT !.threshold = threshold, !.err = "ErrThreshold"]
  ELSE [ZeroDecoder EXCEPT !.threshold = threshold, !.order = order,
                           !.flagFunc = flagFunc, !.referenceFunc = referenceFunc,
                           !.r = r,
                           !.cap = flushBuffer + NFlags * (threshold + (2 ^ NLengthBits - 1))]

NewReader(r, order) ==
  NewCustomReader(r, order, "DefaultFlagFunc", "DefaultReferenceFunc", DefaultThreshold)

(***************************************************************************)
(* The buffer decoder: Decoder, NewCustomDecoder, Decoder.Decode.          *)
(***************************************************************************)
OffsetMask == 2 ^ NLengthBits - 1

\* the Decoder's DefaultReferenceFunc: <<length, offset>>
DefaultReferenceFunc(refBytes, order) ==
  LET lo == IF order = LSB THEN refBytes[1] ELSE refBytes[2]
      hi == IF order = LSB THEN refBytes[2] ELSE refBytes[1]
  IN <<hi \div (2 ^ NLengthBits), (hi % (OffsetMask + 1)) * 256 + lo>>

\* Go's int, here of 32 bits (GOARCH=386, arm); with 64 bits the same
\* holds at 2^63.  Sums and differences of ints wrap around.
MaxInt == 2147483647
MinInt == (-MaxInt) - 1

\* a + b on ints
IntAdd(a, b) ==
  IF b > 0 /\ a > MaxInt - b THEN MinInt + ((a - (MaxInt - b)) - 1)
  ELSE IF b < 0 /\ a < MinInt - b THEN MaxInt - (((MinInt - b) - a) - 1)
  ELSE a + b

\* a - b on ints
IntSub(a, b) ==
  IF b = MinInt THEN (IF a < 0 THEN a - b ELSE MinInt + a)
  ELSE IntAdd(a, -b)

\* a caller's reference function returning ints near the ends of int's
\* range: the byte 2 stands for MaxInt, the byte 16 for MinInt
WideInt(x) == IF x = 2 THEN MaxInt ELSE IF x = 16 THEN MinInt ELSE x

WideReferenceFunc(refBytes, order) ==
  LET x == IF order = LSB THEN refBytes[1] ELSE refBytes[2]
      y == IF order = LSB THEN refBytes[2] ELSE refBytes[1]
  IN <<WideInt(x), WideInt(y)>>

\* d.referenceFunc(refBytes, d.order)
CallReferenceFunc(f, refBytes, order) ==
  IF f = "Biased" THEN BiasedReferenceFunc(refBytes, order)
  ELSE IF f = "Wide" THEN WideReferenceFunc(refBytes, order)
  ELSE DefaultReferenceFunc(refBytes, order)

\* a nil *Decoder
NilDecoder ==
  [isNil |-> TRUE, order |-> 0, threshold |-> 0, flagFunc |-> "nil", referenceFunc |-> "nil"]

\* NewCustomDecoder comparing the threshold with NReferenceBytes alone
NewCustomDecoderLowMin(order, flagFunc, referenceFunc, threshold) ==
  IF order # LSB /\ order # MSB THEN <<NilDecoder, "ErrOrder">>
  ELSE IF flagFunc = "nil" \/ referenceFunc = "nil" THEN <<NilDecoder, "ErrNilParameter">>
  ELSE IF threshold < NReferenceBytes THEN <<NilDecoder, "ErrThreshold">>
  ELSE <<[isNil |-> FALSE, order |-> order, threshold |-> threshold,
          flagFunc |-> flagFunc, referenceFunc |-> referenceFunc], "nil">>

\* <<decoder, error>>
NewCustomDecoder(order, flagFunc, referenceFunc, threshold) ==
  IF order # LSB /\ order # MSB THEN <<NilDecoder, "ErrOrder">>
  ELSE IF flagFunc = "nil" \/ referenceFunc = "nil" THEN <<NilDecoder, "ErrNilParameter">>
  ELSE IF threshold < ThresholdMin THEN <<NilDecoder, "ErrThreshold">>
  ELSE <<[isNil |-> FALSE, order |-> order, threshold |-> threshold,
          flagFunc |-> flagFunc, referenceFunc |-> referenceFunc], "nil">>

NewDecoder(order) ==
  NewCustomDecoder(order, "DefaultFlagFunc", "DefaultReferenceFunc", DefaultThreshold)

\* in[lo:hi]
InSlice(in, lo, hi) == SubSeq(in, lo + 1, hi)

\* DecodeLiteral taking the end of the input for the end of the data
DecodeLiteralNoError(in, st) ==
  IF st.r >= Len(in) THEN st
  ELSE [st EXCEPT !.out = Append(@, in[st.r + 1]), !.r = @ + 1, !.w = @ + 1]

\* Decode's locals are the record st: out, r, w and, once it returns, err.
\* One literal: out = append(out, in[r])
DecodeLiteral(in, st) ==
  IF st.r >= Len(in) THEN [st EXCEPT !.err = "ErrUnexpectedEOF"]
  ELSE [st EXCEPT !.out = Append(@, in[st.r + 1]), !.r = @ + 1, !.w = @ + 1]

\* DecodeReference starting a copy that would begin before the output at
\* the output's first byte
DecodeReferenceClamped(dec, in, st) ==
  IF st.r + NReferenceBytes > Len(in) THEN [st EXCEPT !.err = "ErrUnexpectedEOF"]
  ELSE LET refBytes == InSlice(in, st.r, st.r + NReferenceBytes)
           st1 == [st EXCEPT !.r = @ + NReferenceBytes]
           lo == CallReferenceFunc(dec.referenceFunc, refBytes, dec.order)
           n == lo[1] + dec.threshold
           offset == lo[2]
           pos == IF (st.w - 1) - offset < 0 THEN 0 ELSE (st.w - 1) - offset
       IN IF lo[1] < 0 THEN [st1 EXCEPT !.err = "ErrChunkLength"]
          ELSE IF offset < 0 THEN [st1 EXCEPT !.err = "ErrOffset"]
          ELSE IF pos > Len(st.out) THEN [st1 EXCEPT !.err = "panic"]
          ELSE IF pos + n > Len(st.out)
          THEN [st1 EXCEPT !.out = @ \o InSlice(st.out, pos, Len(st.out)),
                           !.err = "ErrChunkLength"]
          ELSE [st1 EXCEPT !.out = @ \o InSlice(st.out, pos, pos + n), !.w = @ + n]

\* One reference.  out[pos:] panics when pos > len(out), out[pos:pos+n]
\* when pos+n < pos; err = "panic" stands for the panic
DecodeReference(dec, in, st) ==
  IF st.r + NReferenceBytes > Len(in) THEN [st EXCEPT !.err = "ErrUnexpectedEOF"]
  ELSE LET refBytes == InSlice(in, st.r, st.r + NReferenceBytes)
           st1 == [st EXCEPT !.r = @ + NReferenceBytes]
           lo == CallReferenceFunc(dec.referenceFunc, refBytes, dec.order)
           n == IntAdd(lo[1], dec.threshold)
           offset == lo[2]
           pos == IntSub(st.w - 1, offset)
       IN IF lo[1] < 0 THEN [st1 EXCEPT !.err = "ErrChunkLength"]
          ELSE IF offset < 0 \/ pos < 0 THEN [st1 EXCEPT !.err = "ErrOffset"]
          ELSE IF pos > Len(st.out) THEN [st1 EXCEPT !.err = "panic"]
          ELSE IF IntAdd(pos, n) > Len(st.out)
          THEN [st1 EXCEPT !.out = @ \o InSlice(st.out, pos, Len(st.out)),
                           !.err = "ErrChunkLength"]
          ELSE IF IntAdd(pos, n) < pos THEN [st1 EXCEPT !.err = "panic"]
          ELSE [st1 EXCEPT !.out = @ \o InSlice(st.out, pos, pos + n), !.w = @ + n]

RECURSIVE DecodeFlags(_, _, _, _, _)
\* the loop over the NFlags flags of one flag byte
DecodeFlags(dec, in, st, flags, k) ==
  IF k = NFlags THEN st
  ELSE LET st1 == IF CallFlagFunc(dec.flagFunc, flags, k) THEN DecodeLiteral(in, st)
                  ELSE DecodeReference(dec, in, st)
       IN IF st1.err # "nil" THEN st1 ELSE DecodeFlags(dec, in, st1, flags, k + 1)

RECURSIVE DecodeLoop(_, _, _)
\* for r < l { ... }
DecodeLoop(dec, in, st) ==
  IF st.r >= Len(in) THEN st
  ELSE LET flags == in[st.r + 1]
           st1 == [st EXCEPT !.r = @ + 1]
       IN IF flags = 0
          THEN IF st1.r + NFlags > Len(in)
               THEN [st1 EXCEPT !.out = @ \o InSlice(in, st1.r, Len(in)),
                                !.err = "ErrUnexpectedEOF"]
               ELSE DecodeLoop(dec, in,
                      [st1 EXCEPT !.out = @ \o InSlice(in, st1.r, st1.r + NFlags),
                                  !.r = @ + NFlags, !.w = @ + NFlags])
          ELSE LET st2 == DecodeFlags(dec, in, st1, flags, 0)
               IN IF st2.err # "nil" THEN st2 ELSE DecodeLoop(dec, in, st2)

RECURSIVE DecodeLoopGeneral(_, _, _)
\* for r < l { ... } with every flag byte, 0 too, taking the loop over the
\* flags
DecodeLoopGeneral(dec, in, st) ==
  IF st.r >= Len(in) THEN st
  ELSE LET st1 == DecodeFlags(dec, in, [st EXCEPT !.r = @ + 1], in[st.r + 1], 0)
       IN IF st1.err # "nil" THEN st1 ELSE DecodeLoopGeneral(dec, in, st1)

\* Decode without the flags == 0 case
DecodeGeneral(dec, in) ==
  DecodeLoopGeneral(dec, in, [out |-> <<>>, r |-> 0, w |-> 0, err |-> "nil"])

\* the returned out and err, with r and w as they stood at the return
Decode(dec, in) == DecodeLoop(dec, in, [out |-> <<>>, r |-> 0, w |-> 0, err |-> "nil"])

(***************************************************************************)
(* The streaming reader of part_001: NewReader takes the functions and the *)
(* threshold, a nil function stands for the default one, the decoder has   *)
(* no count of consumed bytes (d.i stays 0).  Read, flush, Close and the    *)
(* function decode defers read as in part_002.                             *)
(***************************************************************************)
ctlWidth == 8
offsetWidth == 12
sizeWidth == 4
threshold == 3
codeSize == 2
windowSize == 2 ^ offsetWidth
thresholdMin == codeSize + ctlWidth \div 8

ctlFuncDefault(ctl, pos) == (((ctl * (2 ^ pos)) % 256) \div 128) = 0

\* <<size, relOff>>
codeFuncDefault(b, order) ==
  LET lo == IF order = LSB THEN b[1] ELSE b[2]
      hi == IF order = LSB THEN b[2] ELSE b[1]
      code == (hi * 256 + lo) % 65536
  IN <<code % (2 ^ sizeWidth), code \div 16>>

\* d.ctlFunc(ctl, pos)
CallCtlFunc(f, ctl, pos) ==
  IF f = "Inverted" THEN InvertedFlagFunc(ctl, pos) ELSE ctlFuncDefault(ctl, pos)

\* d.codeFunc(code, d.order)
CallCodeFunc(f, b, order) ==
  IF f = "Biased" THEN BiasedReferenceFunc(b, order) ELSE codeFuncDefault(b, order)

\* d.output[d.o], d.err = d.r.ReadByte(); d.o++
decodeByte(d) ==
  LET rb == ReadByte(d.r)
  IN IF d.o >= d.cap THEN [d EXCEPT !.r = rb.r, !.panic = TRUE]
     ELSE LET d1 == [d EXCEPT !.r = rb.r, !.output = OutPut(@, d.o, rb.b), !.err = rb.err]
          IN IF rb.err # "nil" THEN d1 ELSE [d1 EXCEPT !.o = @ + 1]

RECURSIVE readCode(_, _)
\* the loop filling code; <<d, code>>
readCode(d, code) ==
  IF Len(code) = codeSize THEN <<d, code>>
  ELSE LET rb == ReadByte(d.r)
           d1 == [d EXCEPT !.r = rb.r, !.err = rb.err]
       IN IF rb.err # "nil" THEN <<d1, Append(code, rb.b)>>
          ELSE readCode(d1, Append(code, rb.b))

\* one code: n += threshold adds the package's constant
decodeCode(d) ==
  LET rd == readCode(d, <<>>)
      d1 == rd[1]
      sr == CallCodeFunc(d.referenceFunc, rd[2], d.order)
      n == sr[1] + threshold
      relOff == sr[2]
      pos == d.o - relOff - 1
  IN IF d1.err # "nil" THEN d1
     ELSE IF sr[1] < 0 THEN [d1 EXCEPT !.err = "ErrChunkLength"]
     ELSE IF relOff < 0 \/ pos < 0 THEN [d1 EXCEPT !.err = "ErrOffset"]
     ELSE IF d.o + n > d.cap \/ pos + n > d.cap THEN [d1 EXCEPT !.panic = TRUE]
     ELSE [d1 EXCEPT !.output = copyOutput(@, d.o, pos, n), !.o = @ + n,
                     !.lastCopy = [o |-> d.o, pos |-> pos, n |-> n]]

RECURSIVE decodeCtlZero(_, _)
\* the loop of the ctl == 0 case
decodeCtlZero(d, k) ==
  IF k = ctlWidth THEN d
  ELSE LET d1 == decodeByte(d)
       IN IF d1.err # "nil" \/ d1.panic THEN d1 ELSE decodeCtlZero(d1, k + 1)

RECURSIVE decodeCtl(_, _, _)
\* the loop over the ctlWidth rounds of one control byte
decodeCtl(d, ctl, k) ==
  IF k = ctlWidth THEN d
  ELSE LET d1 == IF CallCtlFunc(d.flagFunc, ctl, k) THEN decodeByte(d) ELSE decodeCode(d)
       IN IF d1.err # "nil" \/ d1.panic THEN d1 ELSE decodeCtl(d1, ctl, k + 1)

\* decode of part_001 up to its return, the deferred function not yet run
decodeBodyCtl(d) ==
  IF d.r.isNil THEN [d EXCEPT !.panic = TRUE]
  ELSE LET rb == ReadByte(d.r)
           d0 == [d EXCEPT !.r = rb.r, !.lastCopy = NoCopy]
       IN IF rb.err = "EOF" THEN flush(d0)
          ELSE IF d.err # "nil" THEN [d0 EXCEPT !.err = rb.err]
          ELSE IF rb.b = 0 THEN decodeCtlZero(d0, 0)
          ELSE decodeCtl(d0, rb.b, 0)

\* NewReader of part_001; the decoder's fields flagFunc and referenceFunc
\* stand for its ctlFunc and codeFunc
NewReaderCtl(r, order, ctlFunc, codeFunc, th) ==
  LET cf == IF ctlFunc = "nil" THEN "DefaultFlagFunc" ELSE ctlFunc
      rf == IF codeFunc = "nil" THEN "DefaultReferenceFunc" ELSE codeFunc
  IN IF order # LSB /\ order # MSB THEN [ZeroDecoder EXCEPT !.err = "ErrOrder"]
     ELSE IF th < thresholdMin
     THEN [ZeroDecoder EXCEPT !.threshold = th, !.err = "ErrThreshold"]
     ELSE [ZeroDecoder EXCEPT !.threshold = th, !.order = order, !.flagFunc = cf,
                              !.referenceFunc = rf, !.r = r,
                              !.cap = flushBuffer + ctlWidth * (th + (2 ^ sizeWidth - 1))]

(***************************************************************************)
(* The streaming reader as a state machine.  Read is a loop: pc = "Read"   *)
(* while a call is inside it, one step per iteration; Close and a new Read *)
(* are called between calls (pc = "idle").  A panic ends the run.          *)
(*   blen       len(b) of the Read in progress                             *)
(*   ret        what the last Read returned: n, err and the bytes copied   *)
(*   rounds     decode rounds run by the Read in progress                  *)
(*   remAtCall  bytes the source had left when the Read was called         *)
(*   written    every byte a decode round appended to the output buffer    *)
(*   delivered  every byte a Read returned                                 *)
(*   errReturned  the first decode error a Read returned, "nil" before     *)
(* The buffer decoder's caller builds a Decoder and decodes a buffer and   *)
(* its prefixes:                                                           *)
(*   args       the arguments NewCustomDecoder was called with             *)
(*   dec, newErr  what NewCustomDecoder returned                           *)
(*   in         the caller's buffer                                        *)
(*   res        what Decode(in) returned                                   *)
(*   cut, resCut  what Decode(in[:cut]) returned                           *)
(* A caller of the flag and reference functions themselves:                *)
(*   call       the function called, its arguments and what it returned    *)
(***************************************************************************)
VARIABLES d, pc, blen, ret, rounds, remAtCall, written, delivered, errReturned,
          args, dec, newErr, in, res, cut, resCut, call

streamVars == <<d, pc, blen, ret, rounds, remAtCall, written, delivered, errReturned>>

decodeVars == <<args, dec, newErr, in, res, cut, resCut, call>>

vars == <<streamVars, decodeVars>>

StreamBytes == {0, 32, 65}

\* a complete group of eight literals; three literals, a reference to them
\* and four literals; two groups, the second referring into the first
StreamScenarios ==
  { <<0, 1, 2, 3, 4, 5, 6, 7, 8>>,
    <<16, 1, 2, 3, 32, 0, 4, 5, 6, 7>>,
    <<0, 1, 2, 3, 4, 5, 6, 7, 8, 128, 112, 0, 9, 10, 11, 12, 13, 14, 15>> }

StreamInputs ==
  SeqsUpTo(StreamBytes, MaxStreamLen) \cup UNION {Prefixes(s) : s \in StreamScenarios}

Faults == {<<-1, FALSE>>} \cup ((0..MaxFailAt) \X BOOLEAN)

Orders == {LSB, MSB, 2}
FlagFuncs == {"nil", "DefaultFlagFunc", "Inverted"}
ReferenceFuncs == {"nil", "DefaultReferenceFunc", "Biased"}
Thresholds == {ThresholdMin - 1, ThresholdMin, ThresholdMin + 1}
ReadSizes == {1, MaxBuf}

DecodeErrors == {"ErrUnexpectedEOF", "ErrChunkLength", "ErrOffset"}

NoReturn == [n |-> 0, err |-> "none", bytes |-> <<>>]

NoArgs == [order |-> 0, flagFunc |-> "nil", referenceFunc |-> "nil", threshold |-> 0]

NoResult == [out |-> <<>>, r |-> 0, w |-> 0, err |-> "none"]

NoCall == [f |-> "none", flags |-> 0, pos |-> 0, refBytes |-> <<>>, order |-> 0,
           literal |-> FALSE, length |-> 0, offset |-> 0]

\* no Decoder is built, no buffer decoded
InitNoDecoder ==
  /\ args = NoArgs
  /\ dec = NilDecoder
  /\ newErr = "none"
  /\ in = <<>>
  /\ res = NoResult
  /\ cut = 0
  /\ resCut = NoResult
  /\ call = NoCall

InitRest ==
  /\ InitNoDecoder
  /\ pc = "idle"
  /\ blen = 0
  /\ ret = NoReturn
  /\ rounds = 0
  /\ remAtCall = 0
  /\ written = <<>>
  /\ delivered = <<>>
  /\ errReturned = "nil"

Init ==
  /\ \E bytes \in StreamInputs, f \in Faults, order \in Orders, ff \in FlagFuncs,
        rf \in ReferenceFuncs, th \in Thresholds :
       d = NewCustomReader(NewByteReader(bytes, f[1], f[2]), order, ff, rf, th)
  /\ InitRest

\* a caller calls Read(b) with len(b) = n
ReadCall(n) ==
  /\ pc = "idle"
  /\ pc' = "Read"
  /\ blen' = n
  /\ rounds' = 0
  /\ remAtCall' = Len(d.r.bytes) - d.r.pos
  /\ UNCHANGED <<d, ret, written, delivered, errReturned, decodeVars>>

\* ReadDeliver dropping the ready bytes that did not fit into b
ReadDeliverDropping ==
  /\ pc = "Read"
  /\ d.toRead.hi - d.toRead.lo > 0
  /\ LET n == Min(blen, d.toRead.hi - d.toRead.lo)
         bytes == OutSlice(d.output, d.toRead.lo, d.toRead.lo + n)
     IN /\ d' = [d EXCEPT !.toRead.lo = d.toRead.hi]
        /\ ret' = [n |-> n, err |-> "nil", bytes |-> bytes]
        /\ delivered' = delivered \o bytes
  /\ pc' = "idle"
  /\ UNCHANGED <<blen, rounds, remAtCall, written, errReturned, decodeVars>>

\* Read: len(d.toRead) > 0: copy and return
ReadDeliver ==
  /\ pc = "Read"
  /\ d.toRead.hi - d.toRead.lo > 0
  /\ LET n == Min(blen, d.toRead.hi - d.toRead.lo)
         bytes == OutSlice(d.output, d.toRead.lo, d.toRead.lo + n)
     IN /\ d' = [d EXCEPT !.toRead.lo = @ + n]
        /\ ret' = [n |-> n, err |-> "nil", bytes |-> bytes]
        /\ delivered' = delivered \o bytes
  /\ pc' = "idle"
  /\ UNCHANGED <<blen, rounds, remAtCall, written, errReturned, decodeVars>>

\* ReadError forgetting the error once it has reported it
ReadErrorOnce ==
  /\ pc = "Read"
  /\ d.toRead.hi - d.toRead.lo = 0
  /\ d.err # "nil"
  /\ ret' = [n |-> 0, err |-> d.err, bytes |-> <<>>]
  /\ errReturned' = IF errReturned = "nil" /\ d.err \in DecodeErrors THEN d.err
                    ELSE errReturned
  /\ pc' = "idle"
  /\ d' = [d EXCEPT !.err = "nil"]
  /\ UNCHANGED <<blen, rounds, remAtCall, written, delivered, decodeVars>>

\* Read: d.err != nil: return 0, d.err
ReadError ==
  /\ pc = "Read"
  /\ d.toRead.hi - d.toRead.lo = 0
  /\ d.err # "nil"
  /\ ret' = [n |-> 0, err |-> d.err, bytes |-> <<>>]
  /\ errReturned' = IF errReturned = "nil" /\ d.err \in DecodeErrors THEN d.err
                    ELSE errReturned
  /\ pc' = "idle"
  /\ UNCHANGED <<d, blen, rounds, remAtCall, written, delivered, decodeVars>>

\* Read: d.decode(), and around the loop again
ReadDecode ==
  /\ pc = "Read"
  /\ d.toRead.hi - d.toRead.lo = 0
  /\ d.err = "nil"
  /\ rounds < remAtCall + MaxRounds
  /\ LET body == decodeBody(d)
     IN /\ d' = decodeDeferred(body)
        /\ written' = written \o OutSlice(body.output, d.o, body.o)
        /\ pc' = IF body.panic THEN "panic" ELSE "Read"
  /\ rounds' = rounds + 1
  /\ UNCHANGED <<blen, ret, remAtCall, delivered, errReturned, decodeVars>>

CloseCall ==
  /\ pc = "idle"
  /\ d' = Close(d)
  /\ UNCHANGED <<pc, blen, ret, rounds, remAtCall, written, delivered, errReturned, decodeVars>>

Next ==
  \/ \E n \in ReadSizes : ReadCall(n)
  \/ ReadDeliver
  \/ ReadError
  \/ ReadDecode
  \/ CloseCall

Spec == Init /\ [][Next]_vars

(***************************************************************************)
(* Long sources: enough groups of references to fill the output buffer up  *)
(* to flushBuffer, and a tail decoded after the flush.  Every reference is *)
(* the code <<15, 0>>: with order LSB the length 15 and the offset 0, the  *)
(* byte written last.                                                      *)
(***************************************************************************)
RECURSIVE Repeat(_, _)
Repeat(s, k) == IF k = 0 THEN <<>> ELSE s \o Repeat(s, k - 1)

LastByteRef == <<2 ^ NLengthBits - 1, 0>>
RefBytesOut == DefaultThreshold + 2 ^ NLengthBits - 1

\* a literal and seven references
HeadGroup == <<127, 65>> \o Repeat(LastByteRef, NFlags - 1)

\* eight references
RefGroup == <<255>> \o Repeat(LastByteRef, NFlags)

\* the number of RefGroups after HeadGroup that brings o to flushBuffer
FillGroups ==
  CHOOSE k \in 1..flushBuffer :
    /\ 1 + (NFlags - 1) * RefBytesOut + (k - 1) * NFlags * RefBytesOut < flushBuffer
    /\ 1 + (NFlags - 1) * RefBytesOut + k * NFlags * RefBytesOut >= flushBuffer

LongTails ==
  { <<>>, <<128>>, <<128, 15, 0>>, <<127, 66, 15, 0>>, <<64, 66, 0, 0>>, <<0, 1, 2, 3>>,
    <<0, 1, 2, 3, 4, 5, 6, 7, 8>>, <<32, 1, 2, 32, 0>> }

LongInputs == {HeadGroup \o Repeat(RefGroup, FillGroups) \o t : t \in LongTails}

LongReadSizes == {windowLength, 3 * windowLength}

InitLong ==
  /\ \E bytes \in LongInputs : d = NewReader(NewByteReader(bytes, -1, FALSE), LSB)
  /\ InitRest

NextLong ==
  \/ \E n \in LongReadSizes : ReadCall(n)
  \/ ReadDeliver
  \/ ReadError
  \/ ReadDecode
  \/ CloseCall

SpecLong == InitLong /\ [][NextLong]_vars

(***************************************************************************)
(* The streaming reader of part_001 as a state machine.                    *)
(***************************************************************************)
\* literals and a code three back, the code last in its group, first in
\* it, and in the middle of it
CtlScenarios ==
  { <<1, 1, 2, 3, 4, 5, 6, 7, 32, 0>>,
    <<0, 1, 2, 3, 4, 5, 6, 7, 8, 128, 32, 0, 9, 10, 11, 12, 13, 14, 15>>,
    <<17, 1, 2, 3, 32, 0, 4, 5, 6, 0, 32>> }

CtlInputs == UNION {Prefixes(s) : s \in CtlScenarios}

InitCtl ==
  /\ \E bytes \in CtlInputs, order \in Orders, ff \in FlagFuncs, rf \in ReferenceFuncs,
        th \in Thresholds :
       d = NewReaderCtl(NewByteReader(bytes, -1, FALSE), order, ff, rf, th)
  /\ InitRest

\* Read of part_001: d.decode(), and around the loop again
ReadDecodeCtl ==
  /\ pc = "Read"
  /\ d.toRead.hi - d.toRead.lo = 0
  /\ d.err = "nil"
  /\ rounds < remAtCall + MaxRounds
  /\ LET body == decodeBodyCtl(d)
     IN /\ d' = decodeDeferred(body)
        /\ written' = written \o OutSlice(body.output, d.o, body.o)
        /\ pc' = IF body.panic THEN "panic" ELSE "Read"
  /\ rounds' = rounds + 1
  /\ UNCHANGED <<blen, ret, remAtCall, delivered, errReturned, decodeVars>>

NextCtl ==
  \/ \E n \in ReadSizes : ReadCall(n)
  \/ ReadDeliver
  \/ ReadError
  \/ ReadDecodeCtl
  \/ CloseCall

SpecCtl == InitCtl /\ [][NextCtl]_vars

(***************************************************************************)
(* Properties of the streaming reader.                                     *)
(***************************************************************************)
IsPrefixOf(s, t) == Len(s) <= Len(t) /\ s = SubSeq(t, 1, Len(s))

IsSuffixOf(s, t) == Len(s) <= Len(t) /\ s = SubSeq(t, Len(t) - Len(s) + 1, Len(t))

ReadyBytes == OutSlice(d.output, d.toRead.lo, d.toRead.hi)

\* C1 (as claimed): a Read returns after at most one decode round more than
\* the source had bytes left when it was called; in particular, with the
\* source exhausted at a flag byte and nothing ready, the round that finds
\* the end of input is the last one and the Read returns end-of-stream.
C1_ReadReturnsAtCleanEnd == pc = "Read" => rounds <= remAtCall + 1

\* the offset of the reference code the source handed out last
LastReferenceOffset ==
  CallReaderReferenceFunc(d.referenceFunc,
      SubSeq(d.r.bytes, d.r.pos - NReferenceBytes + 1, d.r.pos), d.order)[2]

\* C2 (as claimed): once flushBuffer bytes have been decoded and flushed, a
\* reference whose offset is below windowLength and points at a byte decoded
\* earlier does not fail with the offset error: the window is retained.
C2_WindowRetainedAfterFlush ==
  ~ ( /\ d.err = "ErrOffset"
      /\ Len(written) >= flushBuffer
      /\ LastReferenceOffset >= 0
      /\ LastReferenceOffset < windowLength
      /\ LastReferenceOffset < Len(written) )

\* C4 (as claimed): a reference copy of n bytes from pos to o leaves
\* output[o+k] = output[pos+k] for every k < n, as the left-to-right loop
\* does: where the ranges overlap the bytes repeat output[pos..o-1].
C4_CopyIsLeftToRight ==
  \A k \in 0..(d.lastCopy.n - 1) :
    OutAt(d.output, d.lastCopy.o + k) = OutAt(d.output, d.lastCopy.pos + k)

\* C6 (as claimed): a Read that returns after Close returns 0 bytes and the
\* closed error, and has read nothing from the source.
C6_ReadAfterCloseIsRejected ==
  [][(d.err = "errClosed" /\ pc = "Read" /\ pc' = "idle")
       => (ret'.n = 0 /\ ret'.err = "errClosed" /\ d'.r = d.r)]_vars

\* C7: once a Read has returned a decode error, and while Close is not
\* called, no step runs a decode round, reads the source or writes the
\* buffer, and every Read that returns, returns 0 bytes and that error.
C7_FailureIsSticky ==
  [][(errReturned # "nil" /\ d'.err # "errClosed")
       => /\ d'.r = d.r /\ d'.i = d.i /\ d'.o = d.o /\ d'.output = d.output
          /\ d'.err = errReturned
          /\ written' = written /\ rounds' \in {rounds, 0}
          /\ (pc = "Read" /\ pc' = "idle"
                => ret' = [n |-> 0, err |-> errReturned, bytes |-> <<>>])]_vars

\* a Read called after a Read returned a decode error is about to return
C7_Witness ==
  /\ errReturned \in DecodeErrors
  /\ pc = "Read"
  /\ ret.err = errReturned
  /\ d.err = errReturned

\* C8: when a decode round has failed, every byte the rounds wrote has been
\* flushed: it was delivered or is ready, in order; and when a Read returns
\* the error, every such byte has been delivered.
C8_OutputBeforeError ==
  /\ d.err \in DecodeErrors => (d.o = 0 /\ written = delivered \o ReadyBytes)
  /\ (pc = "idle" /\ ret.err \in DecodeErrors) => delivered = written

\* a Read returned a decode error after Reads delivered the bytes decoded
\* before the failure
C8_Witness ==
  /\ pc = "idle"
  /\ ret.err = "ErrOffset"
  /\ Len(written) > 1
  /\ delivered = written

\* C13: every call of Close returns no error and changes the stored error
\* only (the write index, the buffer, the ready bytes, the count of consumed
\* bytes and the source are unchanged), and a second Close changes nothing.
C13_CloseIsIdempotent ==
  [][(pc = "idle" /\ pc' = "idle")
       => /\ CloseResult(d) = "nil"
          /\ d' = [d EXCEPT !.err = "errClosed"]
          /\ Close(d') = d'
          /\ CloseResult(d') = "nil"
          /\ UNCHANGED <<blen, ret, rounds, remAtCall, written, delivered, errReturned>>]_vars

\* Close was called with bytes ready and a part of the source consumed
C13_Witness ==
  /\ pc = "idle"
  /\ d.err = "errClosed"
  /\ d.toRead.hi - d.toRead.lo > 0
  /\ d.i > 0
  /\ ret.n > 0

\* the decode round that ran last ended, without an error, with a
\* reference: the source's last NReferenceBytes bytes consumed are its code
RoundEndedWithReference ==
  /\ d.err = "nil"
  /\ d.lastCopy.n > 0
  /\ d.o = d.lastCopy.o + d.lastCopy.n
  /\ d.r.pos >= NReferenceBytes

\* the length the reference function reports for that code
LastReferenceLength ==
  CallReaderReferenceFunc(d.referenceFunc,
      SubSeq(d.r.bytes, d.r.pos - NReferenceBytes + 1, d.r.pos), d.order)[1]

\* C16 (as claimed): a reader constructed with the threshold T advances the
\* write index, for a reference it resolves, by the length the reference
\* function reports plus T; and its buffer holds NFlags copies of the
\* longest reference, 2^NLengthBits - 1 + T bytes, behind flushBuffer.
C16_CopyLengthUsesThreshold ==
  /\ RoundEndedWithReference => d.o - d.lastCopy.o = LastReferenceLength + d.threshold
  /\ d.cap > 0 => d.cap >= flushBuffer + NFlags * (2 ^ NLengthBits - 1 + d.threshold)

\* a decode round is about to run
RoundStarts == pc = "Read" /\ d.toRead.hi - d.toRead.lo = 0 /\ d.err = "nil"

\* C19: for a reader with the default reference function, the buffer is
\* flushBuffer + 8 * (threshold + 15) bytes long; between the rounds, and
\* so at the start of every round, 0 <= o < flushBuffer; within a round
\* no write and no copy leaves the buffer (no index out of range), the
\* source and the destination of a copy lie in it, and o stays at most
\* len(output).
C19_OutputBufferBounds ==
  (d.referenceFunc = "DefaultReferenceFunc" /\ ~ d.r.isNil) =>
    /\ d.cap = flushBuffer + 8 * (d.threshold + 15)
    /\ d.cap = flushBuffer + NFlags * (d.threshold + 2 ^ NLengthBits - 1)
    /\ flushBuffer = 2 * 4096
    /\ 0 <= d.o /\ d.o < flushBuffer
    /\ Len(d.output) <= d.cap
    /\ 0 <= d.toRead.lo /\ d.toRead.lo <= d.toRead.hi /\ d.toRead.hi <= d.cap
    /\ ~ d.panic /\ pc # "panic"
    /\ RoundStarts =>
         LET body == decodeBody(d)
         IN /\ ~ body.panic
            /\ 0 <= body.o /\ body.o <= d.cap
            /\ Len(body.output) <= d.cap
            /\ body.lastCopy.n > 0 =>
                 /\ 0 <= body.lastCopy.pos
                 /\ body.lastCopy.pos + body.lastCopy.n <= d.cap
                 /\ body.lastCopy.o + body.lastCopy.n <= d.cap

\* a round starts with the buffer one byte short of flushBuffer and fills
\* it with eight references of the greatest length, up to the last byte
\* but one
C19_Witness ==
  /\ RoundStarts
  /\ d.o = flushBuffer - 1
  /\ decodeBody(d).o = d.cap - 1
  /\ decodeBody(d).lastCopy.n = d.threshold + 15

\* C20 (as claimed): a decode round whose read of the flag byte fails with
\* an error other than io.EOF stores that error, reads no further byte and
\* writes no output, so that the Read in progress returns that error.
C20_SourceErrorOnFlagByte ==
  [][(RoundStarts /\ ReadByte(d.r).err = "ErrIO" /\ rounds' = rounds + 1)
       => /\ d'.err = "ErrIO"
          /\ d'.r.pos = d.r.pos
          /\ written' = written]_vars

\* C21 (as claimed): Pos() is the number of bytes the source has handed
\* out: a ReadByte that returned io.EOF or an error is not counted.
C21_PosCountsBytesRead == Pos(d) = d.r.pos

\* the errors of NewCustomReader
ConstructionErrors == {"ErrOrder", "ErrNilParameter", "ErrThreshold"}

\* C22: NewCustomReader returns a reader with a construction error, no
\* source and no buffer exactly when the order is not LSB or MSB, a function
\* is nil or the threshold is below ThresholdMin; on such a reader, whatever
\* Reads and Closes are called, no decode round runs, the source is not
\* read, nothing is written or delivered, and every Read returns 0 bytes
\* and an error: the construction error, or errClosed after Close.
C22_FailedConstruction ==
  /\ (pc = "idle" /\ ret = NoReturn) =>
     \A order \in Orders, ff \in FlagFuncs, rf \in ReferenceFuncs, th \in Thresholds :
       LET new == NewCustomReader(d.r, order, ff, rf, th)
           bad == order \notin {LSB, MSB} \/ ff = "nil" \/ rf = "nil" \/ th < ThresholdMin
       IN IF bad
          THEN /\ new.err \in ConstructionErrors
               /\ new.r.isNil /\ new.cap = 0 /\ new.output = <<>>
               /\ new.toRead.hi - new.toRead.lo = 0
          ELSE new.err = "nil" /\ new.r = d.r /\ new.cap > 0
  /\ d.r.isNil =>
       /\ d.err \in ConstructionErrors \cup {"errClosed"}
       /\ d.cap = 0 /\ d.output = <<>> /\ d.o = 0 /\ Pos(d) = 0
       /\ d.toRead.hi - d.toRead.lo = 0
       /\ rounds = 0 /\ written = <<>> /\ delivered = <<>>
       /\ pc # "panic"
       /\ ret.err # "none" =>
            /\ ret.n = 0 /\ ret.bytes = <<>>
            /\ ret.err \in ConstructionErrors \cup {"errClosed"}
            /\ ret.err = d.err \/ d.err = "errClosed"

\* a reader refused for its threshold: a Read returned the error, Close was
\* called, and a Read is in progress
C22_Witness ==
  /\ d.r.isNil
  /\ d.threshold = ThresholdMin - 1
  /\ ret.err = "ErrThreshold"
  /\ d.err = "errClosed"
  /\ pc = "Read"

\* the bytes written since the last flush
Unflushed == OutSlice(d.output, 0, d.o)

\* C23: the bytes the rounds wrote are, in order and unaltered, the bytes
\* delivered, then the ready bytes, then the bytes not yet flushed: no
\* byte is lost, duplicated or overwritten while it is ready; bytes are
\* ready only with the write index at 0, and a round runs only with no
\* byte ready and no error stored; a Read returns at most len(b) bytes,
\* and returns either bytes or an error.
C23_ReadyBytesDeliveredOnce ==
  /\ written = delivered \o ReadyBytes \o Unflushed
  /\ d.toRead.hi - d.toRead.lo > 0 => d.o = 0
  /\ (pc = "idle" /\ ret.err # "none") =>
       /\ ret.n = Len(ret.bytes)
       /\ ret.n <= blen
       /\ (ret.err = "nil") = (ret.n > 0)
  /\ IsPrefixOf(delivered, written)
  /\ ret.err = "nil" => IsSuffixOf(ret.bytes, delivered)

\* the buffer was flushed at flushBuffer and again at the end of the
\* source, and Reads with a buffer shorter than the first segment have
\* delivered both segments
C23_Witness ==
  /\ pc = "idle"
  /\ blen = windowLength
  /\ Len(written) > flushBuffer + NFlags
  /\ delivered = written
  /\ ret.n = NFlags

\* the <<length, offset>> a default reference function takes from a code:
\* the reader's, or the Decoder's
DefaultCode(layout, refBytes, order) ==
  IF layout = "reader" THEN ReaderReferenceFunc(refBytes, order)
  ELSE DefaultReferenceFunc(refBytes, order)

RECURSIVE SelfOverlapFrom(_, _, _, _)
\* whether src, read with the default flag function, the threshold
\* DefaultThreshold and the given default reference function, holds a
\* reference reaching into its own destination before its first failure.
\* st: read index r, bytes put out w, the flag byte and the flags used k
SelfOverlapFrom(layout, src, order, st) ==
  IF st.k = NFlags
  THEN IF st.r >= Len(src) THEN FALSE
       ELSE SelfOverlapFrom(layout, src, order,
              [st EXCEPT !.r = @ + 1, !.flags = src[st.r + 1], !.k = 0])
  ELSE IF DefaultFlagFunc(st.flags, st.k)
  THEN IF st.r >= Len(src) THEN FALSE
       ELSE SelfOverlapFrom(layout, src, order,
              [st EXCEPT !.r = @ + 1, !.w = @ + 1, !.k = @ + 1])
  ELSE IF st.r + NReferenceBytes > Len(src) THEN FALSE
  ELSE LET code == DefaultCode(layout, InSlice(src, st.r, st.r + NReferenceBytes), order)
           n == code[1] + DefaultThreshold
           pos == (st.w - 1) - code[2]
       IN IF pos < 0 THEN FALSE
          ELSE IF pos + n > st.w THEN TRUE
          ELSE SelfOverlapFrom(layout, src, order,
                 [st EXCEPT !.r = @ + NReferenceBytes, !.w = @ + n, !.k = @ + 1])

SelfOverlap(layout, src, order) ==
  SelfOverlapFrom(layout, src, order, [r |-> 0, w |-> 0, flags |-> 0, k |-> NFlags])

\* the reader was built by NewReader, its source has returned no error but
\* io.EOF, and Close was not called
DefaultReaderUndisturbed ==
  /\ ~ d.r.isNil
  /\ d.flagFunc = "DefaultFlagFunc"
  /\ d.referenceFunc = "DefaultReferenceFunc"
  /\ d.threshold = DefaultThreshold
  /\ d.r.failAt = -1
  /\ Pos(d) = d.r.pos
  /\ d.err # "errClosed"

\* what Decode returns, with a Decoder of the reader's order, on the bytes
\* the reader's source holds
DecodeOfSource == Decode(NewDecoder(d.order)[1], d.r.bytes)

\* C24: for a reader built by NewReader on an undisturbed source whose
\* references do not reach into their own destination (as the reader takes
\* them, and as the Decoder takes them) and whose decoded output is shorter
\* than flushBuffer, the bytes the Reads have delivered are a prefix of
\* what Decode returns on the same bytes with the same order, the bytes
\* decoded so far too; once the reader has stored an error, the bytes it
\* decoded are all of Decode's output and Decode returns that error.
C24_StreamingAgreesWithDecode ==
  ( /\ DefaultReaderUndisturbed
    /\ ~ SelfOverlap("reader", d.r.bytes, d.order)
    /\ ~ SelfOverlap("Decoder", d.r.bytes, d.order)
    /\ Len(DecodeOfSource.out) < flushBuffer )
  => /\ IsPrefixOf(delivered, DecodeOfSource.out)
     /\ IsPrefixOf(written, DecodeOfSource.out)
     /\ d.err # "nil" => /\ written = DecodeOfSource.out
                         /\ d.err = DecodeOfSource.err
     /\ (d.r.pos = Len(d.r.bytes) /\ d.o = 0 /\ written # <<>> /\ d.err = "nil")
          => /\ written = DecodeOfSource.out
             /\ DecodeOfSource.err = "nil"

(***************************************************************************)
(* The buffer decoder's caller.  The buffer in is any short byte sequence  *)
(* or up to MaxGroups complete groups.                                     *)
(***************************************************************************)
DecodeBytes == {0, 2, 16}

\* eight literals; a reference three back (order LSB, and order MSB); the
\* literals A, B and a reference to B; a reference in the first place; a
\* reference seven back, into a preceding group; for a flag function that
\* marks a literal by a set bit, eight literals, and eight references three
\* back
InputGroups ==
  { <<0, 1, 2, 3, 4, 5, 6, 7, 8>>,
    <<16, 1, 2, 3, 2, 0, 4, 5, 6, 7>>,
    <<16, 1, 2, 3, 0, 2, 4, 5, 6, 7>>,
    <<32, 65, 66, 0, 0, 1, 2, 3, 4, 5>>,
    <<128, 0, 0, 1, 2, 3, 4, 5, 6, 7>>,
    <<128, 7, 0, 1, 2, 3, 4, 5, 6, 7>>,
    <<255, 1, 2, 3, 4, 5, 6, 7, 8>>,
    <<0>> \o Repeat(<<2, 0>>, NFlags) }

RECURSIVE GroupSeqs(_)
\* the concatenations of at most k groups
GroupSeqs(k) ==
  IF k = 0 THEN {<<>>}
  ELSE LET shorter == GroupSeqs(k - 1)
       IN shorter \cup {s \o g : s \in shorter, g \in InputGroups}

DecodeInputs == SeqsUpTo(DecodeBytes, MaxDecodeLen) \cup GroupSeqs(MaxGroups)

InitDecode ==
  /\ d = ZeroDecoder
  /\ pc = "idle"
  /\ blen = 0
  /\ ret = NoReturn
  /\ rounds = 0
  /\ remAtCall = 0
  /\ written = <<>>
  /\ delivered = <<>>
  /\ errReturned = "nil"
  /\ args = NoArgs
  /\ dec = NilDecoder
  /\ newErr = "none"
  /\ in \in DecodeInputs
  /\ res = NoResult
  /\ cut = 0
  /\ resCut = NoResult
  /\ call = NoCall

NewCustomDecoderCall(order, flagFunc, referenceFunc, th) ==
  /\ newErr = "none"
  /\ args' = [order |-> order, flagFunc |-> flagFunc, referenceFunc |-> referenceFunc,
              threshold |-> th]
  /\ LET new == NewCustomDecoder(order, flagFunc, referenceFunc, th)
     IN dec' = new[1] /\ newErr' = new[2]
  /\ UNCHANGED <<streamVars, in, res, cut, resCut, call>>

NewDecoderCall(order) ==
  /\ newErr = "none"
  /\ args' = [order |-> order, flagFunc |-> "DefaultFlagFunc",
              referenceFunc |-> "DefaultReferenceFunc", threshold |-> DefaultThreshold]
  /\ LET new == NewDecoder(order)
     IN dec' = new[1] /\ newErr' = new[2]
  /\ UNCHANGED <<streamVars, in, res, cut, resCut, call>>

\* DecodeCall with a Decode that leaves the decoder's order changed
DecodeCallStateful ==
  /\ ~ dec.isNil
  /\ res' = Decode(dec, in)
  /\ dec' = [dec EXCEPT !.order = MSB]
  /\ UNCHANGED <<streamVars, args, newErr, in, cut, resCut, call>>

\* out, err := d.Decode(in)
DecodeCall ==
  /\ ~ dec.isNil
  /\ res' = Decode(dec, in)
  /\ UNCHANGED <<streamVars, args, dec, newErr, in, cut, resCut, call>>

\* out, err := d.Decode(in[:k])
DecodePrefixCall(k) ==
  /\ ~ dec.isNil
  /\ cut' = k
  /\ resCut' = Decode(dec, InSlice(in, 0, k))
  /\ UNCHANGED <<streamVars, args, dec, newErr, in, res, call>>

NextDecode ==
  \/ \E order \in Orders, ff \in FlagFuncs, rf \in ReferenceFuncs, th \in Thresholds :
       NewCustomDecoderCall(order, ff, rf, th)
  \/ \E order \in Orders : NewDecoderCall(order)
  \/ DecodeCall
  \/ \E k \in 0..Len(in) : DecodePrefixCall(k)

SpecDecode == InitDecode /\ [][NextDecode]_vars

\* the caller's reference function may return any int
DecoderReferenceFuncs == ReferenceFuncs \cup {"Wide"}

NextDecodeWide ==
  \/ \E order \in Orders, ff \in FlagFuncs, rf \in DecoderReferenceFuncs, th \in Thresholds :
       NewCustomDecoderCall(order, ff, rf, th)
  \/ DecodeCall

SpecDecodeWide == InitDecode /\ [][NextDecodeWide]_vars

(***************************************************************************)
(* Properties of the buffer decoder.                                       *)
(***************************************************************************)
IsPrefix(s, t) == Len(s) <= Len(t) /\ s = SubSeq(t, 1, Len(s))

\* <<length, offset>> of the reference code Decode(in) read last
FailedReference ==
  CallReferenceFunc(dec.referenceFunc, InSlice(in, res.r - NReferenceBytes, res.r), dec.order)

\* C3 (as claimed): Decode reports no error for a reference whose length the
\* reference function accepts, whose start w - 1 - offset is not negative
\* and which overlaps its own destination (offset + 1 < copyLength).
C3_OverlapIsNoError ==
  ~ ( /\ res.err = "ErrChunkLength"
      /\ FailedReference[1] >= 0
      /\ FailedReference[2] >= 0
      /\ res.w - 1 - FailedReference[2] >= 0
      /\ FailedReference[2] + 1 < FailedReference[1] + dec.threshold )

\* the bytes of the group that a flag byte opens
GroupLen(flags) ==
  IF flags = 0 THEN 1 + NFlags
  ELSE LET refs == Cardinality({k \in 0..(NFlags - 1) : ~ CallFlagFunc(dec.flagFunc, flags, k)})
       IN 1 + (NFlags - refs) + refs * NReferenceBytes

RECURSIVE GroupBoundariesFrom(_)
GroupBoundariesFrom(r) ==
  IF r >= Len(in) THEN {r}
  ELSE {r} \cup GroupBoundariesFrom(r + GroupLen(in[r + 1]))

\* the positions of in at which a group begins or the last one ends
GroupBoundaries == GroupBoundariesFrom(0)

\* C5 (as claimed, for the prefixes that are not empty): Decode of a proper
\* prefix of an input that Decode accepts returns ErrUnexpectedEOF and the
\* output decoded from the prefix.
C5_TruncationIsAnError ==
  (res.err = "nil" /\ resCut.err # "none" /\ cut > 0 /\ cut < Len(in))
    => (resCut.err = "ErrUnexpectedEOF" /\ IsPrefix(resCut.out, res.out))

\* C5 (amended): Decode of a proper prefix of an input that Decode accepts
\* returns ErrUnexpectedEOF when the cut falls inside a group and no error
\* when it falls between two groups or before the first; its output is the
\* beginning of the whole input's output.
C5_TruncationInsideAGroup ==
  (res.err = "nil" /\ resCut.err # "none" /\ cut < Len(in))
    => /\ resCut.err = IF cut \in GroupBoundaries THEN "nil" ELSE "ErrUnexpectedEOF"
       /\ IsPrefix(resCut.out, res.out)
       /\ resCut.r <= cut

\* an accepted input cut inside a group, behind a reference: the prefix
\* decodes to an error and a part of the output
C5_Witness ==
  /\ res.err = "nil"
  /\ cut < Len(in)
  /\ cut \notin GroupBoundaries
  /\ resCut.err = "ErrUnexpectedEOF"
  /\ Len(resCut.out) > NFlags
  /\ Len(resCut.out) < Len(res.out)

\* C9 (as claimed): the output returned with ErrChunkLength or ErrOffset is
\* the output of the sub-rounds completed before the failing reference,
\* which is what decoding the input up to that reference returns: the
\* failing reference adds no byte.
C9_FailingReferenceAddsNothing ==
  (res.err \in {"ErrChunkLength", "ErrOffset"} /\ resCut.err # "none"
     /\ cut = res.r - NReferenceBytes)
    => (res.out = resCut.out /\ Len(res.out) = res.w)

\* C10: NewCustomDecoder returns a decoder and no error exactly when the
\* order is LSB or MSB, both functions are given and the threshold is at
\* least ThresholdMin = 3; otherwise no decoder and the error of the first
\* of these that fails; never a decoder and an error.  The arguments of
\* NewDecoder are accepted for LSB and MSB.
C10_ConstructionValidation ==
  newErr # "none" =>
    LET okOrder == args.order \in {LSB, MSB}
        okFuncs == args.flagFunc # "nil" /\ args.referenceFunc # "nil"
        okThreshold == args.threshold >= 3
    IN /\ ThresholdMin = 3 /\ DefaultThreshold = 3
       /\ newErr \in {"nil", "ErrOrder", "ErrNilParameter", "ErrThreshold"}
       /\ (newErr = "nil") = (okOrder /\ okFuncs /\ okThreshold)
       /\ (newErr = "nil") = (~ dec.isNil)
       /\ (newErr = "ErrOrder") = (~ okOrder)
       /\ (newErr = "ErrNilParameter") = (okOrder /\ ~ okFuncs)
       /\ (newErr = "ErrThreshold") = (okOrder /\ okFuncs /\ ~ okThreshold)
       /\ ~ dec.isNil =>
            /\ dec.order = args.order /\ dec.threshold = args.threshold
            /\ dec.flagFunc = args.flagFunc /\ dec.referenceFunc = args.referenceFunc

\* a threshold one below the minimum, everything else in order, is refused
C10_Witness ==
  /\ newErr = "ErrThreshold"
  /\ dec.isNil
  /\ args.threshold = ThresholdMin - 1
  /\ args.order = MSB

\* C11 (as claimed): Decode returns the output and the error that the loop
\* over the flags returns when it is run on every group, the groups with
\* the flag byte 0 included, whatever the decoder's flag function.
C11_ZeroFlagsIsGeneralPath ==
  res.err # "none" =>
    LET general == DecodeGeneral(dec, in)
    IN res.out = general.out /\ res.err = general.err

RECURSIVE ExpandCopy(_, _, _)
\* n bytes appended one by one, the k-th a copy of out[start + k]
ExpandCopy(out, start, n) ==
  IF n = 0 THEN out ELSE ExpandCopy(Append(out, out[start + 1]), start + 1, n - 1)

RECURSIVE ExpandRounds(_, _, _)
\* the sub-rounds k.. of a group of in: e.out is the expansion so far, e.r
\* the input position, e.ok whether the input is, so far, made of complete
\* groups whose references have a length and an offset that are not
\* negative, point inside e.out and do not overlap their destination
ExpandRounds(e, flags, k) ==
  IF k = NFlags \/ ~ e.ok THEN e
  ELSE IF CallFlagFunc(dec.flagFunc, flags, k)
  THEN IF e.r >= Len(in) THEN [e EXCEPT !.ok = FALSE]
       ELSE ExpandRounds([e EXCEPT !.out = Append(@, in[e.r + 1]), !.r = @ + 1], flags, k + 1)
  ELSE IF e.r + NReferenceBytes > Len(in) THEN [e EXCEPT !.ok = FALSE]
  ELSE LET code == CallReferenceFunc(dec.referenceFunc,
                                     SubSeq(in, e.r + 1, e.r + NReferenceBytes), dec.order)
           copyLength == code[1] + dec.threshold
           offset == code[2]
       IN IF code[1] < 0 \/ offset < 0 \/ offset + 1 > Len(e.out) \/ copyLength > offset + 1
          THEN [e EXCEPT !.ok = FALSE]
          ELSE ExpandRounds([e EXCEPT !.out = ExpandCopy(@, Len(@) - (offset + 1), copyLength),
                                      !.r = @ + NReferenceBytes], flags, k + 1)

RECURSIVE ExpandGroups(_)
ExpandGroups(e) ==
  IF ~ e.ok \/ e.r >= Len(in) THEN e
  ELSE ExpandGroups(ExpandRounds([e EXCEPT !.r = @ + 1], in[e.r + 1], 0))

\* the reference expansion of in for the decoder dec
Expansion == ExpandGroups([ok |-> TRUE, out |-> <<>>, r |-> 0])

\* C12 (as claimed): for an input of complete groups whose references point
\* inside the output written so far and do not overlap their destination,
\* Decode returns no error and the reference expansion: a byte for each
\* literal, length + threshold bytes from offset + 1 back for each
\* reference, the kind of each sub-round being what the decoder's flag
\* function reports.
C12_DecodeIsReferenceExpansion ==
  (res.err # "none" /\ Expansion.ok) => (res.err = "nil" /\ res.out = Expansion.out)

\* a Decoder built anew with the arguments dec was built with
SameParameters ==
  NewCustomDecoder(args.order, args.flagFunc, args.referenceFunc, args.threshold)[1]

ReferenceAtCut ==
  /\ res.err # "none"
  /\ resCut.err = "ErrUnexpectedEOF"
  /\ resCut.r = cut - 1
  /\ Len(resCut.out) = resCut.w
  /\ cut + 1 <= Len(in)

\* <<length, offset>> of that reference
CodeAtCut == CallReferenceFunc(dec.referenceFunc, InSlice(in, cut - 1, cut + 1), dec.order)

\* Decode(in) failed at that reference with err, having appended nothing
FailedAtCut(err) ==
  /\ res.err = err
  /\ res.r = cut + 1
  /\ res.w = resCut.w
  /\ res.out = resCut.out

\* the bytes Decode(in) appended for that reference are a copy that starts
\* at index pos of the output
CopiedAtCutFrom(pos) ==
  LET w == resCut.w
      n == Min(CodeAtCut[1] + dec.threshold, w - pos)
  IN /\ ~ FailedAtCut(res.err)
     /\ IsPrefix(resCut.out, res.out)
     /\ Len(res.out) >= w + n
     /\ \A k \in 1..n : res.out[w + k] = resCut.out[pos + k]

C25_DecodeNeverCrashes ==
  res.err # "none" =>
    /\ res.err # "panic"
    /\ res.err \in {"nil"} \cup DecodeErrors
    /\ 0 <= res.r /\ res.r <= Len(in)
    /\ res.err = "nil" => res.r = Len(in)
    /\ res.w <= Len(res.out)
    /\ res.err \in {"nil", "ErrOffset"} => res.w = Len(res.out)

(***************************************************************************)
Bytes == 0..255

InitFunc ==
  /\ d = ZeroDecoder
  /\ InitRest

\* literal := DefaultFlagFunc(flags, pos), as a decoder of the order calls it
DefaultFlagFuncCall ==
  /\ call.f = "none"
  /\ \E flags \in Bytes, pos \in 0..(NFlags - 1), order \in {LSB, MSB} :
       call' = [NoCall EXCEPT !.f = "DefaultFlagFunc", !.flags = flags, !.pos = pos,
                              !.order = order, !.literal = DefaultFlagFunc(flags, pos)]
  /\ UNCHANGED <<streamVars, args, dec, newErr, in, res, cut, resCut>>

\* length, offset := DefaultReferenceFunc(refBytes, order), the reader's
ReaderReferenceFuncCall ==
  /\ call.f = "none"
  /\ \E b0 \in Bytes, b1 \in Bytes, order \in {LSB, MSB} :
       LET lo == ReaderReferenceFunc(<<b0, b1>>, order)
       IN call' = [NoCall EXCEPT !.f = "ReaderReferenceFunc", !.refBytes = <<b0, b1>>,
                                  !.order = order, !.length = lo[1], !.offset = lo[2]]
  /\ UNCHANGED <<streamVars, args, dec, newErr, in, res, cut, resCut>>

\* length, offset := DefaultReferenceFunc(refBytes, order), the Decoder's
DefaultReferenceFuncCall ==
  /\ call.f = "none"
  /\ \E b0 \in Bytes, b1 \in Bytes, order \in {LSB, MSB} :
       LET lo == DefaultReferenceFunc(<<b0, b1>>, order)
       IN call' = [NoCall EXCEPT !.f = "DefaultReferenceFunc", !.refBytes = <<b0, b1>>,
                                  !.order = order, !.length = lo[1], !.offset = lo[2]]
  /\ UNCHANGED <<streamVars, args, dec, newErr, in, res, cut, resCut>>

NextFunc ==
  \/ DefaultFlagFuncCall
  \/ ReaderReferenceFuncCall
  \/ DefaultReferenceFuncCall

SpecFunc == InitFunc /\ [][NextFunc]_vars

\* the bit of weight 2^k of the byte b
Bit(b, k) == (b \div (2 ^ k)) % 2

\* C17: for every flag byte and every position 0..7 DefaultFlagFunc
\* reports a literal exactly when the bit of weight 2^(7 - pos) is 0, the
\* most significant bit first, in a decoder of the order LSB and in one of
\* the order MSB.
C17_FlagsMostSignificantBitFirst ==
  call.f = "DefaultFlagFunc" =>
    call.literal = (Bit(call.flags, 7 - call.pos) = 0)

\* the flag byte 0x40 at position 1: a reference, although the bit of
\* weight 2^1 is 0
C17_Witness ==
  /\ call.f = "DefaultFlagFunc"
  /\ call.flags = 64
  /\ call.pos = 1
  /\ call.order = MSB
  /\ ~ call.literal

\* what the function of call.f returns for refBytes and order
SameFunc(refBytes, order) ==
  IF call.f = "ReaderReferenceFunc" THEN ReaderReferenceFunc(refBytes, order)
  ELSE DefaultReferenceFunc(refBytes, order)

\* C18: each DefaultReferenceFunc returns for [b0, b1] and one order what
\* it returns for [b1, b0] and the other order, a length in 0..15 and an
\* offset in 0..4095: never a negative length.
C18_ReferenceByteOrder ==
  call.f \in {"ReaderReferenceFunc", "DefaultReferenceFunc"} =>
    /\ SameFunc(<<call.refBytes[2], call.refBytes[1]>>, MSB + LSB - call.order)
         = <<call.length, call.offset>>
    /\ call.length \in 0..15
    /\ call.offset \in 0..4095

\* a code whose two bytes differ, so that the order matters, with the
\* longest length
C18_Witness ==
  /\ call.f = "ReaderReferenceFunc"
  /\ call.refBytes = <<15, 16>>
  /\ call.order = LSB
  /\ call.length = 15
  /\ call.offset = 256

====
